---- MODULE Spec2Model ----
(***************************************************************************)
(* ACME assembler language support: the directive vocabulary search        *)
(* (AcmeGrammar.fuzzySearch), the scanner and statement classifier         *)
(* (AcmeParser.parse / AcmeParser.lexer) and the position lookup           *)
(* (AcmeParser.getTokenAtSourcePos) of src/language/language_asm.js.       *)
(*                                                                         *)
(* Strings are sequences of character codes, as String.charCodeAt sees     *)
(* them; offsets are 0-based as in the source, so the character at offset  *)
(* i of s is s[i+1].                                                       *)
(***************************************************************************)
EXTENDS Integers, Sequences, FiniteSets, TLC

\* ---------------------------------------------------------------------------
\* Bounds
\* ---------------------------------------------------------------------------
\* number of lexemes a scanned source buffer is made of
MaxLexemes == 4
\* length of a fuzzySearch query
MaxQueryLen == 3
\* length of a text line handed to getTokenAtSourcePos
MaxLineLen == 4
\* length of the buffer a stand-alone cursor walks over
MaxCursorLen == 2
\* how far past the end of its buffer a stand-alone cursor is followed
MaxOverrun == 2
\* number of lexemes of a source buffer that is parsed twice
MaxReparseLexemes == 3
\* number of lexemes of a source buffer whose parse is followed to its end
MaxFairLexemes == 2

\* ---------------------------------------------------------------------------
\* Characters
\* ---------------------------------------------------------------------------
\* CharCode of utilities/utils: the character codes the parser compares with
CharCode ==
    [ Tab |-> 9, LineFeed |-> 10, CarriageReturn |-> 13, Space |-> 32,
      Exclamation |-> 33, DoubleQuote |-> 34, SingleQuote |-> 39,
      Plus |-> 43, Period |-> 46, Semicolon |-> 59, Underscore |-> 95 ]

LowerCase == <<"a","b","c","d","e","f","g","h","i","j","k","l","m",
               "n","o","p","q","r","s","t","u","v","w","x","y","z">>
Digits == <<"0","1","2","3","4","5","6","7","8","9">>

\* String.charCodeAt of a one-character string
Ord(ch) ==
    IF \E i \in 1..26 : LowerCase[i] = ch
      THEN 96 + (CHOOSE i \in 1..26 : LowerCase[i] = ch)
    ELSE IF \E i \in 1..10 : Digits[i] = ch
      THEN 47 + (CHOOSE i \in 1..10 : Digits[i] = ch)
    ELSE CASE ch = "\t" -> CharCode.Tab
           [] ch = "\n" -> CharCode.LineFeed
           [] ch = "\r" -> CharCode.CarriageReturn
           [] ch = " "  -> CharCode.Space
           [] ch = "!"  -> CharCode.Exclamation
           [] ch = "\"" -> CharCode.DoubleQuote
           [] ch = "'"  -> CharCode.SingleQuote
           [] ch = "("  -> 40
           [] ch = "+"  -> CharCode.Plus
           [] ch = "."  -> CharCode.Period
           [] ch = ";"  -> CharCode.Semicolon
           [] ch = "A"  -> 65
           [] ch = "_"  -> CharCode.Underscore

\* a string literal, written as the tuple of its characters
Str(w) == [i \in 1..Len(w) |-> Ord(w[i])]

charCodeAt(s, i) == s[i + 1]

\* String.substring(from, to), both clamped to the length of s
substring(s, from, to) ==
    LET f == IF from > Len(s) THEN Len(s) ELSE from
        t == IF to > Len(s) THEN Len(s) ELSE to
    IN  SubSeq(s, f + 1, t)

\* String.startsWith
startsWith(s, prefix) ==
    /\ Len(prefix) <= Len(s)
    /\ \A i \in 1..Len(prefix) : s[i] = prefix[i]

\* ParserHelper of utilities/utils
isAlpha(c) == (c >= 97 /\ c <= 122) \/ (c >= 65 /\ c <= 90)
isNumeric(c) == c >= 48 /\ c <= 57
\* symbol-constituent characters: alphanumeric, underscore, period
isSymbolChar(c) ==
    isAlpha(c) \/ isNumeric(c) \/ c = CharCode.Underscore \/ c = CharCode.Period
isWhitespace(c) ==
    c \in {CharCode.Space, CharCode.Tab, CharCode.CarriageReturn, CharCode.LineFeed}

\* ---------------------------------------------------------------------------
\* ACME Grammar
\* ---------------------------------------------------------------------------
pseudoOpcodes == <<
    Str(<<"f","i","l","l">>), Str(<<"f","i">>), Str(<<"a","l","i","g","n">>),
    Str(<<"c","o","n","v","t","a","b">>), Str(<<"c","t">>), Str(<<"t","e","x","t">>),
    Str(<<"t","x">>), Str(<<"p","e","t">>), Str(<<"r","a","w">>), Str(<<"s","c","r">>),
    Str(<<"s","c","r","x","o","r">>), Str(<<"t","o">>), Str(<<"s","o","u","r","c","e">>),
    Str(<<"s","r","c">>), Str(<<"b","i","n","a","r","y">>), Str(<<"b","i","n">>),
    Str(<<"z","o","n","e">>), Str(<<"z","n">>), Str(<<"s","l">>), Str(<<"s","v","l">>),
    Str(<<"s","a","l">>), Str(<<"p","d","b">>), Str(<<"i","f">>), Str(<<"i","f","d","e","f">>),
    Str(<<"f","o","r">>), Str(<<"d","o">>), Str(<<"e","n","d","o","f","f","i","l","e">>),
    Str(<<"w","a","r","n">>), Str(<<"e","r","r","o","r">>),
    Str(<<"s","e","r","i","o","u","s">>), Str(<<"m","a","c","r","o">>), Str(<<"s","e","t">>),
    Str(<<"i","n","i","t","m","e","m">>), Str(<<"p","s","e","u","d","o","p","c">>),
    Str(<<"c","p","u">>), Str(<<"a","l">>), Str(<<"a","s">>), Str(<<"r","l">>),
    Str(<<"r","s">>), Str(<<"c","b","m">>), Str(<<"s","u","b","z","o","n","e">>),
    Str(<<"s","z">>), Str(<<"r","e","a","l","p","c">>),
    Str(<<"p","r","e","v","i","o","u","s","c","o","n","t","e","x","t">>),
    Str(<<"b","y","t","e">>), Str(<<"b","y">>), Str(<<"w","o","r","d">>), Str(<<"w","o">>)
>>


\* an optional value: null, or a defined value v
Null == [isNull |-> TRUE, value |-> <<>>]
Some(v) == [isNull |-> FALSE, value |-> v]

\* collectItems with the prefix test turned round (query.startsWith(token))
RECURSIVE collectItems_reversedPrefix(_, _, _)
collectItems_reversedPrefix(query, k, items) ==
    IF k > Len(pseudoOpcodes) THEN items
    ELSE LET token == <<CharCode.Exclamation>> \o pseudoOpcodes[k]
         IN  collectItems_reversedPrefix(query, k + 1,
                 IF startsWith(query, token) THEN Append(items, token) ELSE items)

\* the loop over AcmeGrammar.pseudoOpcodes, from the k-th name on
RECURSIVE collectItems(_, _, _)
collectItems(query, k, items) ==
    IF k > Len(pseudoOpcodes) THEN items
    ELSE LET token == <<CharCode.Exclamation>> \o pseudoOpcodes[k]
         IN  collectItems(query, k + 1,
                 IF startsWith(token, query) THEN Append(items, token) ELSE items)

\* AcmeGrammar.fuzzySearch(query); query is an optional string
fuzzySearch(query) ==
    IF query.isNull \/ Len(query.value) < 1 THEN Null
    ELSE LET items == IF charCodeAt(query.value, 0) = CharCode.Exclamation
                        THEN collectItems(query.value, 1, <<>>)
                        ELSE <<>>
         IN  IF Len(items) < 1 THEN Null ELSE Some(items)

\* ---------------------------------------------------------------------------
\* Positional primitives of language/language_base
\* ---------------------------------------------------------------------------
TokenType ==
    [ LineBreak |-> "LineBreak", Comment |-> "Comment", Identifier |-> "Identifier",
      Macro |-> "Macro", Reference |-> "Reference", String |-> "String" ]

StatementType == [ Definition |-> "Definition", Comment |-> "Comment" ]

\* new Range(offset, row, col): an open span of length 0
Range(offset, row, col) == [offset |-> offset, row |-> row, col |-> col, length |-> 0]

\* Range.inc(): the span grows by one character
inc(range) == [range EXCEPT !.length = @ + 1]

\* new Token(type, src, range); the source buffer is the parser's src
Token(type, range) == [type |-> type, range |-> range, first |-> FALSE]

setFirstFlag(token) == [token EXCEPT !.first = TRUE]

\* Token.text: the characters of src under the token's span
text(s, token) ==
    substring(s, token.range.offset, token.range.offset + token.range.length)

\* the opcode table of settings/settings (the mnemonics the model's sources spell)
Opcodes == { Str(<<"l","d","a">>), Str(<<"s","t","a">>), Str(<<"j","m","p">>) }

\* Token.isOpcode()
isOpcode(s, token) == text(s, token) \in Opcodes

\* new Statement(type, tokens, tokenOffset, tokenCount)
Statement(type, tokenOffset, tokenCount) ==
    [type |-> type, tokenOffset |-> tokenOffset, tokenCount |-> tokenCount]

\* new AbstractSyntaxTree(), as ParserBase.parse installs it
AbstractSyntaxTree == [tokens |-> <<>>, statements |-> <<>>, definitions |-> <<>>]

addToken(tree, token) == [tree EXCEPT !.tokens = Append(@, token)]
addStatement(tree, statement) == [tree EXCEPT !.statements = Append(@, statement)]
addDefinition(tree, statement) == [tree EXCEPT !.definitions = Append(@, statement)]

\* ---------------------------------------------------------------------------
\* Parser Iterator
\* ---------------------------------------------------------------------------
\* new ParserIterator(src)
ParserIterator == [ofs |-> 0, row |-> 0, col |-> 0]

\* new ParserIterator(src, ofs, row, col)
ParserIteratorAt(ofs, row, col) == [ofs |-> ofs, row |-> row, col |-> col]

eof(s, iter) == iter.ofs >= Len(s)

peek(s, iter) == IF eof(s, iter) THEN 0 ELSE charCodeAt(s, iter.ofs)

next(iter) == [iter EXCEPT !.ofs = @ + 1, !.col = @ + 1]

nextline(iter) == [iter EXCEPT !.ofs = @ + 1, !.row = @ + 1, !.col = 0]

\* ---------------------------------------------------------------------------
\* ACME Parser: the statement classifier
\* ---------------------------------------------------------------------------
MacroCommands ==
    { Str(<<"!","m","a","c","r","o">>), Str(<<"!","s","e","t">>), Str(<<"!","a","d","d","r">>) }

\* classify without the opcode test on a leading Identifier
classify_noOpcodeCheck(s, tokens, ofs, count) ==
    LET token == tokens[ofs + 1]
        tokenType == token.type
    IN  IF tokenType = TokenType.Identifier
          THEN Some(Statement(StatementType.Definition, ofs, 1))
        ELSE IF tokenType = TokenType.Comment
          THEN Some(Statement(StatementType.Comment, ofs, 1))
        ELSE IF count > 1
          THEN LET token2 == tokens[ofs + 2]
                   macroCommand == text(s, token)
               IN  IF /\ tokenType = TokenType.Macro
                      /\ macroCommand \in MacroCommands
                      /\ token2.type = TokenType.Identifier
                      /\ ~isOpcode(s, token2)
                     THEN Some(Statement(StatementType.Definition, ofs + 1, 1))
                     ELSE Null
        ELSE Null

\* classify with the directive's Definition spanning the directive token
classify_directiveSpan(s, tokens, ofs, count) ==
    LET token == tokens[ofs + 1]
        tokenType == token.type
    IN  IF tokenType = TokenType.Identifier
          THEN IF ~isOpcode(s, token)
                 THEN Some(Statement(StatementType.Definition, ofs, 1))
                 ELSE Null
        ELSE IF tokenType = TokenType.Comment
          THEN Some(Statement(StatementType.Comment, ofs, 1))
        ELSE IF count > 1
          THEN LET token2 == tokens[ofs + 2]
                   macroCommand == text(s, token)
               IN  IF /\ tokenType = TokenType.Macro
                      /\ macroCommand \in MacroCommands
                      /\ token2.type = TokenType.Identifier
                      /\ ~isOpcode(s, token2)
                     THEN Some(Statement(StatementType.Definition, ofs, 1))
                     ELSE Null
        ELSE Null

\* the statement AcmeParser.lexer decides on for tokens[ofs .. ofs+count-1],
\* as an optional value (let statement = null; ...)
classify(s, tokens, ofs, count) ==
    LET token == tokens[ofs + 1]
        tokenType == token.type
    IN  IF tokenType = TokenType.Identifier
          THEN IF ~isOpcode(s, token)
                 THEN Some(Statement(StatementType.Definition, ofs, 1))
                 ELSE Null
        ELSE IF tokenType = TokenType.Comment
          THEN Some(Statement(StatementType.Comment, ofs, 1))
        ELSE IF count > 1
          THEN LET token2 == tokens[ofs + 2]
                   macroCommand == text(s, token)
               IN  IF /\ tokenType = TokenType.Macro
                      /\ macroCommand \in MacroCommands
                      /\ token2.type = TokenType.Identifier
                      /\ ~isOpcode(s, token2)
                     THEN Some(Statement(StatementType.Definition, ofs + 1, 1))
                     ELSE Null
        ELSE Null

\* lexer leaving the definitions collection alone
lexer_noDefinition(tree, s, tokenOffset, tokenCount) ==
    IF tokenCount < 1 THEN tree
    ELSE IF Len(tree.tokens) < tokenOffset + tokenCount THEN tree
    ELSE LET statement == classify(s, tree.tokens, tokenOffset, tokenCount)
         IN  IF statement.isNull THEN tree
             ELSE addStatement(tree, statement.value)

\* AcmeParser.lexer(tokenOffset, tokenCount): the AST it leaves behind
lexer(tree, s, tokenOffset, tokenCount) ==
    IF tokenCount < 1 THEN tree
    ELSE IF Len(tree.tokens) < tokenOffset + tokenCount THEN tree
    ELSE LET statement == classify(s, tree.tokens, tokenOffset, tokenCount)
         IN  IF statement.isNull THEN tree
             ELSE IF statement.value.type = StatementType.Definition
               THEN addDefinition(addStatement(tree, statement.value), statement.value)
               ELSE addStatement(tree, statement.value)

\* ---------------------------------------------------------------------------
\* ACME Parser: the scanner rules; each gives the cursor it leaves and the
\* tokens it recognised
\* ---------------------------------------------------------------------------
\* const c2 = (it.ofs+1 < len) ? src.charCodeAt(it.ofs+1) : 0
lookahead(s, iter) == IF iter.ofs + 1 < Len(s) THEN charCodeAt(s, iter.ofs + 1) ELSE 0

isLineEnd(c) == c = CharCode.CarriageReturn \/ c = CharCode.LineFeed

\* commentLoop running over a carriage return
RECURSIVE commentLoop_lineFeedOnly(_, _, _)
commentLoop_lineFeedOnly(s, iter, range) ==
    IF iter.ofs < Len(s) /\ charCodeAt(s, iter.ofs) # CharCode.LineFeed
      THEN commentLoop_lineFeedOnly(s, next(iter), inc(range))
      ELSE [it |-> iter, range |-> range]

\* while (it.ofs < len && src[it.ofs] is neither CR nor LF) { range.inc(); it.next(); }
RECURSIVE commentLoop(_, _, _)
commentLoop(s, iter, range) ==
    IF iter.ofs < Len(s) /\ ~isLineEnd(charCodeAt(s, iter.ofs))
      THEN commentLoop(s, next(iter), inc(range))
      ELSE [it |-> iter, range |-> range]

\* while (it.ofs < len && ParserHelper.isSymbolChar(src[it.ofs])) { range.inc(); it.next(); }
RECURSIVE symbolLoop(_, _, _)
symbolLoop(s, iter, range) ==
    IF iter.ofs < Len(s) /\ isSymbolChar(charCodeAt(s, iter.ofs))
      THEN symbolLoop(s, next(iter), inc(range))
      ELSE [it |-> iter, range |-> range]

\* stringLoop ending the string at either quote character
RECURSIVE stringLoop_anyQuote(_, _, _, _)
stringLoop_anyQuote(s, iter, range, quoteChar) ==
    IF /\ iter.ofs < Len(s)
       /\ charCodeAt(s, iter.ofs) # CharCode.SingleQuote
       /\ charCodeAt(s, iter.ofs) # CharCode.DoubleQuote
      THEN stringLoop_anyQuote(s, next(iter), inc(range), quoteChar)
      ELSE [it |-> iter, range |-> range]

\* while (it.ofs < len && src[it.ofs] != quoteChar) { range.inc(); it.next(); }
RECURSIVE stringLoop(_, _, _, _)
stringLoop(s, iter, range, quoteChar) ==
    IF iter.ofs < Len(s) /\ charCodeAt(s, iter.ofs) # quoteChar
      THEN stringLoop(s, next(iter), inc(range), quoteChar)
      ELSE [it |-> iter, range |-> range]

\* scanLineBreak skipping a second character after every carriage return
scanLineBreak_skipAfterCR(s, iter) ==
    LET c == peek(s, iter)
        range == Range(iter.ofs, iter.row, iter.col)
        crlf == c = CharCode.CarriageReturn
    IN  [ it |-> nextline(IF crlf THEN next(iter) ELSE iter),
          tokens |-> << Token(TokenType.LineBreak, IF crlf THEN inc(range) ELSE range) >> ]

\* rule 1: c is CR or LF
scanLineBreak(s, iter) ==
    LET c == peek(s, iter)
        c2 == lookahead(s, iter)
        range == Range(iter.ofs, iter.row, iter.col)
        crlf == c = CharCode.CarriageReturn /\ c2 = CharCode.LineFeed
    IN  [ it |-> nextline(IF crlf THEN next(iter) ELSE iter),
          tokens |-> << Token(TokenType.LineBreak, IF crlf THEN inc(range) ELSE range) >> ]

\* rule 2: c is ';'
scanComment(s, iter) ==
    LET r == commentLoop(s, iter, Range(iter.ofs, iter.row, iter.col))
    IN  [ it |-> r.it, tokens |-> << Token(TokenType.Comment, r.range) >> ]

\* rule 3: c and c2 are '+'
scanPlusPlus(s, iter) == [ it |-> next(next(iter)), tokens |-> <<>> ]

\* scanIdentifier opening the identifier's range before the '+' is consumed
scanIdentifier_rangeBeforeSkip(s, iter, tokensPerLineCount) ==
    LET c == peek(s, iter)
        c2 == lookahead(s, iter)
        plusPrefix == c = CharCode.Plus /\ isSymbolChar(c2)
        isReference == plusPrefix /\ tokensPerLineCount = 0
        prefixRange == inc(Range(iter.ofs, iter.row, iter.col))
        it1 == IF plusPrefix THEN next(iter) ELSE iter
        range1 == Range(iter.ofs, iter.row, iter.col)
        r == IF ~isReference
               THEN symbolLoop(s, next(it1), inc(range1))
               ELSE symbolLoop(s, it1, range1)
    IN  [ it |-> r.it,
          tokens |-> (IF isReference THEN << Token(TokenType.Reference, prefixRange) >>
                                     ELSE <<>>)
                     \o << Token(TokenType.Identifier, r.range) >> ]

\* scanIdentifier taking every '+' prefix for a macro reference
scanIdentifier_alwaysReference(s, iter, tokensPerLineCount) ==
    LET c == peek(s, iter)
        c2 == lookahead(s, iter)
        plusPrefix == c = CharCode.Plus /\ isSymbolChar(c2)
        isReference == plusPrefix
        prefixRange == inc(Range(iter.ofs, iter.row, iter.col))
        it1 == IF plusPrefix THEN next(iter) ELSE iter
        range1 == Range(it1.ofs, it1.row, it1.col)
        r == IF ~isReference
               THEN symbolLoop(s, next(it1), inc(range1))
               ELSE symbolLoop(s, it1, range1)
    IN  [ it |-> r.it,
          tokens |-> (IF isReference THEN << Token(TokenType.Reference, prefixRange) >>
                                     ELSE <<>>)
                     \o << Token(TokenType.Identifier, r.range) >> ]

\* rule 4: c is '.', '_', alphabetic, or '+' before a symbol character
scanIdentifier(s, iter, tokensPerLineCount) ==
    LET c == peek(s, iter)
        c2 == lookahead(s, iter)
        plusPrefix == c = CharCode.Plus /\ isSymbolChar(c2)
        isReference == plusPrefix /\ tokensPerLineCount = 0
        prefixRange == inc(Range(iter.ofs, iter.row, iter.col))
        it1 == IF plusPrefix THEN next(iter) ELSE iter
        range1 == Range(it1.ofs, it1.row, it1.col)
        r == IF ~isReference
               THEN symbolLoop(s, next(it1), inc(range1))
               ELSE symbolLoop(s, it1, range1)
    IN  [ it |-> r.it,
          tokens |-> (IF isReference THEN << Token(TokenType.Reference, prefixRange) >>
                                     ELSE <<>>)
                     \o << Token(TokenType.Identifier, r.range) >> ]

\* rule 5: c is '!'
scanMacro(s, iter) ==
    LET r == symbolLoop(s, next(iter), inc(Range(iter.ofs, iter.row, iter.col)))
    IN  [ it |-> r.it, tokens |-> << Token(TokenType.Macro, r.range) >> ]

\* rule 6: c is a quote character
scanString(s, iter) ==
    LET quoteChar == peek(s, iter)
        it1 == next(iter)
        r == stringLoop(s, it1, Range(it1.ofs, it1.row, it1.col), quoteChar)
    IN  [ it |-> IF r.it.ofs < Len(s) THEN next(r.it) ELSE r.it,
          tokens |-> << Token(TokenType.String, r.range) >> ]

\* scanDefault without the it.next() of the else branch
scanDefault_noAdvance(s, iter) == [ it |-> iter, tokens |-> <<>> ]

\* rule 7: nothing recognised
scanDefault(s, iter) == [ it |-> next(iter), tokens |-> <<>> ]

\* the rule the if/else-if chain of the scan loop selects at the cursor
rule(s, iter) ==
    LET c == peek(s, iter)
        c2 == lookahead(s, iter)
    IN  IF isLineEnd(c) THEN "LineBreak"
        ELSE IF c = CharCode.Semicolon THEN "Comment"
        ELSE IF c = CharCode.Plus /\ c2 = CharCode.Plus THEN "PlusPlus"
        ELSE IF \/ c = CharCode.Period
                \/ c = CharCode.Underscore
                \/ isAlpha(c)
                \/ (c = CharCode.Plus /\ isSymbolChar(c2)) THEN "Identifier"
        ELSE IF c = CharCode.Exclamation THEN "Macro"
        ELSE IF c = CharCode.SingleQuote \/ c = CharCode.DoubleQuote THEN "String"
        ELSE "Default"

\* addLineToken setting the first-on-line flag on accumulated tokens only
addLineToken_flagAccumulatedOnly(b, s, token0) ==
    IF token0.type = TokenType.LineBreak \/ token0.type = TokenType.Comment
      THEN IF b.tokensPerLineCount > 0
             THEN [ ast |-> lexer(addToken(b.ast, token0), s, b.tokensPerLineOfs,
                                  b.tokensPerLineCount),
                    tokensPerLineOfs |-> -1,
                    tokensPerLineCount |-> 0 ]
             ELSE [b EXCEPT !.ast = addToken(b.ast, token0)]
      ELSE LET token == IF b.tokensPerLineCount = 0 THEN setFirstFlag(token0) ELSE token0
               tree == addToken(b.ast, token)
           IN  [ ast |-> tree,
                 tokensPerLineOfs |-> IF b.tokensPerLineOfs = -1
                                        THEN Len(tree.tokens) - 1
                                        ELSE b.tokensPerLineOfs,
                 tokensPerLineCount |-> b.tokensPerLineCount + 1 ]

\* addLineToken leaving the counters as they are after the classifier ran
addLineToken_noReset(b, s, token0) ==
    LET token == IF b.tokensPerLineCount = 0 THEN setFirstFlag(token0) ELSE token0
        tree == addToken(b.ast, token)
    IN  IF token.type = TokenType.LineBreak \/ token.type = TokenType.Comment
          THEN IF b.tokensPerLineCount > 0
                 THEN [b EXCEPT !.ast = lexer(tree, s, b.tokensPerLineOfs,
                                              b.tokensPerLineCount)]
                 ELSE [b EXCEPT !.ast = tree]
          ELSE [ ast |-> tree,
                 tokensPerLineOfs |-> IF b.tokensPerLineOfs = -1
                                        THEN Len(tree.tokens) - 1
                                        ELSE b.tokensPerLineOfs,
                 tokensPerLineCount |-> b.tokensPerLineCount + 1 ]

\* the per-line bookkeeping of one token: b holds the AST and the two counters
addLineToken(b, s, token0) ==
    LET token == IF b.tokensPerLineCount = 0 THEN setFirstFlag(token0) ELSE token0
        tree == addToken(b.ast, token)
    IN  IF token.type = TokenType.LineBreak \/ token.type = TokenType.Comment
          THEN IF b.tokensPerLineCount > 0
                 THEN [ ast |-> lexer(tree, s, b.tokensPerLineOfs, b.tokensPerLineCount),
                        tokensPerLineOfs |-> -1,
                        tokensPerLineCount |-> 0 ]
                 ELSE [b EXCEPT !.ast = tree]
          ELSE [ ast |-> tree,
                 tokensPerLineOfs |-> IF b.tokensPerLineOfs = -1
                                        THEN Len(tree.tokens) - 1
                                        ELSE b.tokensPerLineOfs,
                 tokensPerLineCount |-> b.tokensPerLineCount + 1 ]

\* for (const token of tokens) { ... }
RECURSIVE addLineTokens(_, _, _)
addLineTokens(b, s, tokens) ==
    IF tokens = <<>> THEN b
    ELSE addLineTokens(addLineToken(b, s, Head(tokens)), s, Tail(tokens))

\* while (!it.eof()) { ... }, from the cursor iter on; b holds the AST and the
\* two counters
RECURSIVE scanFrom(_, _, _)
scanFrom(s, iter, b) ==
    IF eof(s, iter) THEN b
    ELSE LET name == rule(s, iter)
             r == CASE name = "LineBreak" -> scanLineBreak(s, iter)
                    [] name = "Comment" -> scanComment(s, iter)
                    [] name = "PlusPlus" -> scanPlusPlus(s, iter)
                    [] name = "Identifier" -> scanIdentifier(s, iter, b.tokensPerLineCount)
                    [] name = "Macro" -> scanMacro(s, iter)
                    [] name = "String" -> scanString(s, iter)
                    [] name = "Default" -> scanDefault(s, iter)
         IN  scanFrom(s, r.it, addLineTokens(b, s, r.tokens))

\* AcmeParser.parse(src, filename) as a whole: the AST it leaves behind
parse(s) ==
    LET b == scanFrom(s, ParserIterator,
                      [ ast |-> AbstractSyntaxTree,
                        tokensPerLineOfs |-> -1,
                        tokensPerLineCount |-> 0 ])
    IN  IF b.tokensPerLineCount > 0
          THEN lexer(b.ast, s, b.tokensPerLineOfs, b.tokensPerLineCount)
          ELSE b.ast

\* ---------------------------------------------------------------------------
\* ACME Parser: position lookup
\* ---------------------------------------------------------------------------
\* the abstract equality (==) of a character code with a one-character string:
\* the string is converted to a number, and only a digit converts to one
\* (any other character gives NaN, which equals nothing)
looseEquals(c, ch) == \E d \in 0..9 : Digits[d + 1] = ch /\ c = d

\* while (startPos > 0) { ... startPos--; if (c == '.') break; }
RECURSIVE expandLeft(_, _, _)
expandLeft(line, pos, greedyParsing) ==
    IF pos > 0
      THEN LET c == charCodeAt(line, pos - 1)
               stop == IF greedyParsing
                         THEN isWhitespace(c)
                         ELSE c # CharCode.Period /\ ~isSymbolChar(c)
           IN  IF stop THEN pos
               ELSE IF looseEquals(c, ".") THEN pos - 1
               ELSE expandLeft(line, pos - 1, greedyParsing)
      ELSE pos

\* while (endPos < source.length) { if (!isSymbolChar(c)) break; endPos++; }
RECURSIVE expandRight(_, _)
expandRight(line, pos) ==
    IF pos < Len(line) /\ isSymbolChar(charCodeAt(line, pos))
      THEN expandRight(line, pos + 1)
      ELSE pos

\* String.trim()
RECURSIVE trimLeft(_)
trimLeft(w) == IF w # <<>> /\ isWhitespace(Head(w)) THEN trimLeft(Tail(w)) ELSE w
RECURSIVE trimRight(_)
trimRight(w) ==
    IF w # <<>> /\ isWhitespace(w[Len(w)]) THEN trimRight(SubSeq(w, 1, Len(w) - 1)) ELSE w
trim(w) == trimRight(trimLeft(w))

\* AcmeParser.getTokenAtSourcePos(source, offset, leftOnly, greedyParsing),
\* with the two bounds it computed
getTokenAtSourcePos(line, offset, leftOnly, greedyParsing) ==
    LET startPos == expandLeft(line, offset, greedyParsing)
        endPos == IF ~leftOnly THEN expandRight(line, offset + 1) ELSE offset + 1
        token == trim(substring(line, startPos, endPos))
    IN  [ startPos |-> startPos, endPos |-> endPos,
          token |-> IF Len(token) < 1 THEN Null ELSE Some(token) ]

\* ---------------------------------------------------------------------------
\* Inputs
\* ---------------------------------------------------------------------------
\* the lexemes the scanned source buffers are concatenated from
Lexemes ==
    { Str(<<"\r">>), Str(<<"\n">>), Str(<<";">>), Str(<<"+">>), Str(<<".">>),
      Str(<<"x">>), Str(<<"1">>), Str(<<" ">>), Str(<<"'">>), Str(<<"\"">>),
      Str(<<"!","s","e","t">>), Str(<<"l","d","a">>) }

\* the source buffer a sequence of lexemes spells
RECURSIVE Concat(_)
Concat(ws) == IF ws = <<>> THEN <<>> ELSE Head(ws) \o Concat(Tail(ws))

\* strings of at most n characters of the set chars
StringsOver(chars, n) == UNION { [1..k -> chars] : k \in 0..n }

QueryChars == { Ord("!"), Ord("a"), Ord("l"), Ord("s"), Ord("z"), Ord("A") }
Queries == { Null } \cup { Some(q) : q \in StringsOver(QueryChars, MaxQueryLen) }

LineChars == { Ord("a"), Ord("."), Ord(" "), Ord("("), Ord("_") }
Lines == StringsOver(LineChars, MaxLineLen)

\* ---------------------------------------------------------------------------
\* State
\* ---------------------------------------------------------------------------
VARIABLES
    pc,                  \* "idle", "scan" (inside the while loop of parse), "done",
                         \* "searched", "looked"
    src,                 \* the source buffer of the running parse
    it,                  \* its ParserIterator
    ast,                 \* this._ast
    tokensPerLineOfs,
    tokensPerLineCount,
    prev,                \* the aggregate the previous parse of this parser left,
                         \* null before the second parse
    peeked,              \* what the last peek() of a cursor call returned, -1 before
    search,              \* the last fuzzySearch call: its query and what it returned
    lookup               \* the last getTokenAtSourcePos call: its arguments, the
                         \* bounds it computed and what it returned

vars ==
    << pc, src, it, ast, tokensPerLineOfs, tokensPerLineCount, prev, peeked, search, lookup >>

NoCall == [called |-> FALSE]

Init ==
    /\ pc = "idle"
    /\ src = <<>>
    /\ it = ParserIterator
    /\ ast = AbstractSyntaxTree
    /\ tokensPerLineOfs = -1
    /\ tokensPerLineCount = 0
    /\ prev = Null
    /\ peeked = -1
    /\ search = NoCall
    /\ lookup = NoCall

\* ---------------------------------------------------------------------------
\* parse(src, filename)
\* ---------------------------------------------------------------------------
\* entry of parse: super.parse installs a new AST, the cursor and counters reset
ParseBegin ==
    /\ pc = "idle"
    /\ \E n \in 0..MaxLexemes : \E ws \in [1..n -> Lexemes] : src' = Concat(ws)
    /\ ast' = AbstractSyntaxTree
    /\ it' = ParserIterator
    /\ tokensPerLineOfs' = -1
    /\ tokensPerLineCount' = 0
    /\ pc' = "scan"
    /\ UNCHANGED << prev, peeked, search, lookup >>

\* one iteration of while (!it.eof()): r is what the selected rule did
Iteration(r) ==
    LET b == addLineTokens([ ast |-> ast,
                             tokensPerLineOfs |-> tokensPerLineOfs,
                             tokensPerLineCount |-> tokensPerLineCount ],
                           src, r.tokens)
    IN  /\ it' = r.it
        /\ ast' = b.ast
        /\ tokensPerLineOfs' = b.tokensPerLineOfs
        /\ tokensPerLineCount' = b.tokensPerLineCount
        /\ UNCHANGED << pc, src, prev, peeked, search, lookup >>

Scanning(name) == pc = "scan" /\ ~eof(src, it) /\ rule(src, it) = name

ScanLineBreak == Scanning("LineBreak") /\ Iteration(scanLineBreak(src, it))
ScanComment == Scanning("Comment") /\ Iteration(scanComment(src, it))
ScanPlusPlus == Scanning("PlusPlus") /\ Iteration(scanPlusPlus(src, it))
ScanIdentifier ==
    Scanning("Identifier") /\ Iteration(scanIdentifier(src, it, tokensPerLineCount))
ScanMacro == Scanning("Macro") /\ Iteration(scanMacro(src, it))
ScanString == Scanning("String") /\ Iteration(scanString(src, it))
ScanDefault == Scanning("Default") /\ Iteration(scanDefault(src, it))

\* ParseEnd without the call of lexer for the line still accumulated
ParseEnd_noFlush ==
    /\ pc = "scan"
    /\ eof(src, it)
    /\ pc' = "done"
    /\ UNCHANGED << src, it, ast, tokensPerLineOfs, tokensPerLineCount, prev, peeked, search,
                    lookup >>

\* the loop has ended: if (tokensPerLineCount > 0) this.lexer(...)
ParseEnd ==
    /\ pc = "scan"
    /\ eof(src, it)
    /\ ast' = IF tokensPerLineCount > 0
                THEN lexer(ast, src, tokensPerLineOfs, tokensPerLineCount)
                ELSE ast
    /\ pc' = "done"
    /\ UNCHANGED << src, it, tokensPerLineOfs, tokensPerLineCount, prev, peeked, search, lookup >>

Next ==
    \/ ParseBegin
    \/ ScanLineBreak
    \/ ScanComment
    \/ ScanPlusPlus
    \/ ScanIdentifier
    \/ ScanMacro
    \/ ScanString
    \/ ScanDefault
    \/ ParseEnd

Spec == Init /\ [][Next]_vars

\* entry of a parse of a short buffer
ParseShort ==
    /\ pc = "idle"
    /\ \E n \in 0..MaxFairLexemes : \E ws \in [1..n -> Lexemes] : src' = Concat(ws)
    /\ ast' = AbstractSyntaxTree
    /\ it' = ParserIterator
    /\ tokensPerLineOfs' = -1
    /\ tokensPerLineCount' = 0
    /\ pc' = "scan"
    /\ UNCHANGED << prev, peeked, search, lookup >>

NextFair ==
    \/ ParseShort
    \/ ScanLineBreak
    \/ ScanComment
    \/ ScanPlusPlus
    \/ ScanIdentifier
    \/ ScanMacro
    \/ ScanString
    \/ ScanDefault
    \/ ParseEnd

\* parse is one synchronous pass: once entered, the loop keeps taking its steps
SpecFair == Init /\ [][NextFair]_vars /\ WF_vars(NextFair)

\* ---------------------------------------------------------------------------
\* parse(src, filename), called again on the same parser and the same buffer
\* ---------------------------------------------------------------------------
\* the first parse of a parser
ParseFirst ==
    /\ pc = "idle"
    /\ \E n \in 0..MaxReparseLexemes : \E ws \in [1..n -> Lexemes] : src' = Concat(ws)
    /\ ast' = AbstractSyntaxTree
    /\ it' = ParserIterator
    /\ tokensPerLineOfs' = -1
    /\ tokensPerLineCount' = 0
    /\ pc' = "scan"
    /\ UNCHANGED << prev, peeked, search, lookup >>

\* ParseAgain with the two counters kept in the parser from one parse to the next
ParseAgain_keepCounters ==
    /\ pc = "done"
    /\ prev' = Some(ast)
    /\ ast' = AbstractSyntaxTree
    /\ it' = ParserIterator
    /\ pc' = "scan"
    /\ UNCHANGED << src, tokensPerLineOfs, tokensPerLineCount, peeked, search, lookup >>

\* entry of another parse of the same buffer: super.parse replaces the AST,
\* the cursor and the two counters are new locals; the caller still holds the
\* aggregate the parse before left
ParseAgain ==
    /\ pc = "done"
    /\ prev' = Some(ast)
    /\ ast' = AbstractSyntaxTree
    /\ it' = ParserIterator
    /\ tokensPerLineOfs' = -1
    /\ tokensPerLineCount' = 0
    /\ pc' = "scan"
    /\ UNCHANGED << src, peeked, search, lookup >>

NextReparse ==
    \/ ParseFirst
    \/ ScanLineBreak
    \/ ScanComment
    \/ ScanPlusPlus
    \/ ScanIdentifier
    \/ ScanMacro
    \/ ScanString
    \/ ScanDefault
    \/ ParseEnd
    \/ ParseAgain

SpecReparse == Init /\ [][NextReparse]_vars

\* ---------------------------------------------------------------------------
\* ParserIterator on its own
\* ---------------------------------------------------------------------------
CursorChars == { Ord("x"), Ord("\n") }

\* new ParserIterator(src, ofs, row, col) at some place of some buffer
CursorNew ==
    /\ pc = "idle"
    /\ \E s \in StringsOver(CursorChars, MaxCursorLen) :
         \E ofs \in 0..Len(s), row \in 0..1, col \in 0..1 :
           /\ src' = s
           /\ it' = ParserIteratorAt(ofs, row, col)
    /\ pc' = "cursor"
    /\ UNCHANGED << ast, tokensPerLineOfs, tokensPerLineCount, prev, peeked, search, lookup >>

CursorPeek ==
    /\ pc = "cursor"
    /\ peeked' = peek(src, it)
    /\ UNCHANGED << pc, src, it, ast, tokensPerLineOfs, tokensPerLineCount, prev, search,
                    lookup >>

CursorNext ==
    /\ pc = "cursor"
    /\ it.ofs < Len(src) + MaxOverrun
    /\ it' = next(it)
    /\ UNCHANGED << pc, src, ast, tokensPerLineOfs, tokensPerLineCount, prev, peeked, search,
                    lookup >>

CursorNextline ==
    /\ pc = "cursor"
    /\ it.ofs < Len(src) + MaxOverrun
    /\ it' = nextline(it)
    /\ UNCHANGED << pc, src, ast, tokensPerLineOfs, tokensPerLineCount, prev, peeked, search,
                    lookup >>

NextCursor ==
    \/ CursorNew
    \/ CursorPeek
    \/ CursorNext
    \/ CursorNextline

SpecCursor == Init /\ [][NextCursor]_vars

\* ---------------------------------------------------------------------------
\* AcmeGrammar.fuzzySearch(query)
\* ---------------------------------------------------------------------------
FuzzySearch ==
    /\ pc = "idle"
    /\ \E q \in Queries :
         search' = [called |-> TRUE, query |-> q, result |-> fuzzySearch(q)]
    /\ pc' = "searched"
    /\ UNCHANGED << src, it, ast, tokensPerLineOfs, tokensPerLineCount, prev, peeked, lookup >>

NextSearch == FuzzySearch

SpecSearch == Init /\ [][NextSearch]_vars

\* ---------------------------------------------------------------------------
\* AcmeParser.getTokenAtSourcePos(source, offset, leftOnly, greedyParsing)
\* ---------------------------------------------------------------------------
GetTokenAtSourcePos ==
    /\ pc = "idle"
    /\ \E line \in Lines, leftOnly \in BOOLEAN, greedyParsing \in BOOLEAN :
         \E offset \in 0..Len(line) :
           LET r == getTokenAtSourcePos(line, offset, leftOnly, greedyParsing)
           IN  lookup' = [ called |-> TRUE, source |-> line, offset |-> offset,
                           leftOnly |-> leftOnly, greedyParsing |-> greedyParsing,
                           startPos |-> r.startPos, endPos |-> r.endPos,
                           token |-> r.token ]
    /\ pc' = "looked"
    /\ UNCHANGED << src, it, ast, tokensPerLineOfs, tokensPerLineCount, prev, peeked, search >>

NextLookup == GetTokenAtSourcePos

SpecLookup == Init /\ [][NextLookup]_vars

\* ---------------------------------------------------------------------------
\* Vocabulary of the properties
\* ---------------------------------------------------------------------------
Toks == ast.tokens
Stmts == ast.statements

\* the characters of src under a span, and the offset just after it
SpanText(r) == [k \in 1..r.length |-> src[r.offset + k]]
SpanEnd(r) == r.offset + r.length

\* a token that ends a logical line
IsTerminator(tok) == tok.type \in {TokenType.LineBreak, TokenType.Comment}

\* the stream indices (1-based) of the first tokens of the logical lines
LineStarts ==
    { i \in 1..Len(Toks) : ~IsTerminator(Toks[i]) /\ (i = 1 \/ IsTerminator(Toks[i - 1])) }

\* the stream index of the last token of the logical line that starts at i
LineLast(i) ==
    CHOOSE j \in i..Len(Toks) :
        /\ \A k \in i..j : ~IsTerminator(Toks[k])
        /\ (j = Len(Toks) \/ IsTerminator(Toks[j + 1]))

\* the line has been handed to the classifier
LineClosed(i) == LineLast(i) < Len(Toks) \/ pc = "done"

\* the statements whose first token is a token of the line that starts at i
StatementsOfLine(i) ==
    { k \in 1..Len(Stmts) : Stmts[k].tokenOffset + 1 \in i..LineLast(i) }

\* the scan loop is about to run an iteration
AtDispatch == pc = "scan" /\ ~eof(src, it)

\* the tokens the step has appended to the stream
NewTokens == SubSeq(ast'.tokens, Len(ast.tokens) + 1, Len(ast'.tokens))

\* ---------------------------------------------------------------------------
\* Properties
\* ---------------------------------------------------------------------------
\* C1: after parse(), every Comment token that is the first token of its line
\* (first of the stream, or right after a LineBreak or Comment token) has
\* exactly one Comment statement, spanning that one token, and no definition.
C1_CommentStatement ==
    pc = "done" =>
      \A i \in 1..Len(Toks) :
        (Toks[i].type = TokenType.Comment /\ (i = 1 \/ IsTerminator(Toks[i - 1]))) =>
          /\ Cardinality({ k \in 1..Len(Stmts) :
                             Stmts[k] = Statement(StatementType.Comment, i - 1, 1) }) = 1
          /\ \A k \in 1..Len(ast.definitions) : ast.definitions[k].tokenOffset # i - 1

\* the offsets at which a line terminator of src starts (CR, LF, or CR LF once)
TerminatorStarts ==
    { p \in 0..(Len(src) - 1) :
        /\ isLineEnd(src[p + 1])
        /\ ~(src[p + 1] = CharCode.LineFeed /\ p > 0 /\ src[p] = CharCode.CarriageReturn) }

\* C2: every LineBreak token starts at a line terminator and covers it (length
\* 2 for CR LF, from the CR; length 1 for a lone LF or CR), and after parse()
\* every line terminator of the source has exactly one LineBreak token.
C2_LineBreakSpans ==
    /\ \A i \in 1..Len(Toks) :
         Toks[i].type = TokenType.LineBreak =>
           LET p == Toks[i].range.offset
           IN  /\ p \in TerminatorStarts
               /\ Toks[i].range.length =
                    IF /\ src[p + 1] = CharCode.CarriageReturn
                       /\ p + 1 < Len(src)
                       /\ src[p + 2] = CharCode.LineFeed
                      THEN 2 ELSE 1
    /\ pc = "done" =>
         \A p \in TerminatorStarts :
           Cardinality({ i \in 1..Len(Toks) :
                           Toks[i].type = TokenType.LineBreak /\ Toks[i].range.offset = p }) = 1

\* C3: at every point of the scan the emitted spans are in non-decreasing
\* offset order, do not overlap, lie inside the scanned part of [0, L], and
\* every character of the source is inside at most one of them.
C3_SpansOrdered ==
    /\ \A i \in 1..Len(Toks) :
         /\ Toks[i].range.offset >= 0
         /\ Toks[i].range.length >= 0
         /\ SpanEnd(Toks[i].range) <= it.ofs
         /\ SpanEnd(Toks[i].range) <= Len(src)
         /\ i < Len(Toks) =>
              /\ Toks[i].range.offset <= Toks[i + 1].range.offset
              /\ SpanEnd(Toks[i].range) <= Toks[i + 1].range.offset
    /\ \A p \in 0..(Len(src) - 1) :
         Cardinality({ i \in 1..Len(Toks) :
                         Toks[i].range.offset <= p /\ p < SpanEnd(Toks[i].range) }) <= 1

\* a finished scan with a Reference/Identifier pair, a later token, a
\* character inside a span and a character outside every span
C3_Witness ==
    /\ pc = "done"
    /\ Len(Toks) >= 3
    /\ \E i \in 1..Len(Toks) : Toks[i].type = TokenType.Reference
    /\ \E p \in 0..(Len(src) - 1) :
         \A i \in 1..Len(Toks) : ~(Toks[i].range.offset <= p /\ p < SpanEnd(Toks[i].range))

\* C4: a closed line whose first token is an Identifier has exactly one
\* statement, Definition over that one token, when the identifier is not an
\* opcode, and no statement when it is, whatever follows on the line.
C4_IdentifierLine ==
    \A i \in LineStarts :
      (LineClosed(i) /\ Toks[i].type = TokenType.Identifier) =>
        IF SpanText(Toks[i].range) \notin Opcodes
          THEN \E k \in 1..Len(Stmts) :
                 /\ StatementsOfLine(i) = {k}
                 /\ Stmts[k] = Statement(StatementType.Definition, i - 1, 1)
          ELSE StatementsOfLine(i) = {}

\* a finished scan with a defining line of several tokens and an opcode line
C4_Witness ==
    /\ pc = "done"
    /\ \E i \in LineStarts :
         /\ Toks[i].type = TokenType.Identifier
         /\ LineLast(i) > i
         /\ SpanText(Toks[i].range) \notin Opcodes
    /\ \E i \in LineStarts :
         /\ Toks[i].type = TokenType.Identifier
         /\ SpanText(Toks[i].range) \in Opcodes

\* the line that starts at i is "!macro name", "!set name" or "!addr name"
DefiningDirective(i) ==
    /\ LineLast(i) > i
    /\ SpanText(Toks[i].range) \in
         { Str(<<"!","m","a","c","r","o">>), Str(<<"!","s","e","t">>),
           Str(<<"!","a","d","d","r">>) }
    /\ Toks[i + 1].type = TokenType.Identifier
    /\ SpanText(Toks[i + 1].range) \notin Opcodes

\* C5: a closed line whose first token is a Macro has exactly one statement,
\* Definition over its second token only, when it is !macro, !set or !addr
\* followed by an Identifier that is not an opcode, and no statement otherwise.
C5_MacroLine ==
    \A i \in LineStarts :
      (LineClosed(i) /\ Toks[i].type = TokenType.Macro) =>
        IF DefiningDirective(i)
          THEN \E k \in 1..Len(Stmts) :
                 /\ StatementsOfLine(i) = {k}
                 /\ Stmts[k] = Statement(StatementType.Definition, i, 1)
          ELSE StatementsOfLine(i) = {}

\* a finished scan with a defining directive line that a LineBreak closed
C5_Witness ==
    /\ pc = "done"
    /\ \E i \in LineStarts :
         /\ Toks[i].type = TokenType.Macro
         /\ DefiningDirective(i)
         /\ LineLast(i) < Len(Toks)
         /\ Toks[LineLast(i) + 1].type = TokenType.LineBreak

\* the scan loop is at a '+' that a symbol-constituent character follows
AtPlusSymbol ==
    /\ AtDispatch
    /\ peek(src, it) = CharCode.Plus
    /\ it.ofs + 1 < Len(src)
    /\ isSymbolChar(src[it.ofs + 2])

\* C6: a step emits a Reference token exactly when the scan loop is at a '+'
\* before a symbol-constituent character with no token accumulated for the
\* line; the Reference then covers the '+' alone and the next token of the
\* stream is an Identifier starting right after it. With a token accumulated,
\* the step emits the Identifier only.
C6_ReferenceToken ==
    [][ /\ (AtPlusSymbol /\ tokensPerLineCount = 0)
          <=> (\E k \in 1..Len(NewTokens) : NewTokens[k].type = TokenType.Reference)
        /\ (AtPlusSymbol /\ tokensPerLineCount = 0) =>
             /\ Len(NewTokens) = 2
             /\ NewTokens[1].type = TokenType.Reference
             /\ NewTokens[1].range.offset = it.ofs
             /\ NewTokens[1].range.length = 1
             /\ NewTokens[2].type = TokenType.Identifier
             /\ NewTokens[2].range.offset = it.ofs + 1
        /\ (AtPlusSymbol /\ tokensPerLineCount > 0) =>
             /\ Len(NewTokens) = 1
             /\ NewTokens[1].type = TokenType.Identifier
             /\ NewTokens[1].range.offset = it.ofs + 1
      ]_vars

\* a finished scan with a Reference token and, on another line position, an
\* Identifier behind a '+' that gave no token
C6_Witness ==
    /\ pc = "done"
    /\ \E i \in 1..Len(Toks) : Toks[i].type = TokenType.Reference
    /\ \E i \in 2..Len(Toks) :
         /\ Toks[i].type = TokenType.Identifier
         /\ Toks[i - 1].type # TokenType.Reference
         /\ Toks[i].range.offset > 0
         /\ src[Toks[i].range.offset] = CharCode.Plus

\* C7: at a quote character q the scan loop emits exactly one token, a String
\* that starts after the quote, contains no q and ends just before the next q
\* or at end-of-input; both quotes are consumed and outside the span; no other
\* step emits a String token.
C7_StringToken ==
    [][ LET q == peek(src, it)
            atQuote == AtDispatch /\ q \in {CharCode.SingleQuote, CharCode.DoubleQuote}
        IN  /\ atQuote =>
                 /\ Len(NewTokens) = 1
                 /\ NewTokens[1].type = TokenType.String
                 /\ LET r == NewTokens[1].range
                    IN  /\ r.offset = it.ofs + 1
                        /\ \A k \in 1..r.length : src[r.offset + k] # q
                        /\ SpanEnd(r) <= Len(src)
                        /\ SpanEnd(r) < Len(src) => src[SpanEnd(r) + 1] = q
                        /\ it'.ofs = IF SpanEnd(r) < Len(src) THEN SpanEnd(r) + 1
                                                              ELSE SpanEnd(r)
            /\ (\E k \in 1..Len(NewTokens) : NewTokens[k].type = TokenType.String)
                 => atQuote
      ]_vars

\* a finished scan of a source that ends inside a string of at least one
\* character, the other quote character among them
C7_Witness ==
    /\ pc = "done"
    /\ \E i \in 1..Len(Toks) :
         /\ Toks[i].type = TokenType.String
         /\ Toks[i].range.length >= 2
         /\ SpanEnd(Toks[i].range) = Len(src)
         /\ src[Toks[i].range.offset] = CharCode.SingleQuote
         /\ \E k \in 1..Toks[i].range.length :
              src[Toks[i].range.offset + k] = CharCode.DoubleQuote

\* w starts with the characters of q
HasPrefix(w, q) == Len(q) <= Len(w) /\ SubSeq(w, 1, Len(q)) = q

\* C8: fuzzySearch gives null for an absent or empty query and for one that
\* does not start with '!'; otherwise it gives the "!"+name of the vocabulary,
\* in declaration order, that have the query as a prefix, or null when there
\* is none: a returned list is never empty and each item starts with the query.
C8_FuzzySearch ==
    search.called =>
      LET q == search.query
          Candidates == [k \in 1..Len(pseudoOpcodes) |-> <<Ord("!")>> \o pseudoOpcodes[k]]
          Matches(w) == HasPrefix(w, q.value)
          expected == SelectSeq(Candidates, Matches)
      IN  IF q.isNull \/ q.value = <<>> \/ q.value[1] # Ord("!")
            THEN search.result = Null
            ELSE /\ search.result = IF expected = <<>> THEN Null ELSE Some(expected)
                 /\ ~search.result.isNull =>
                      /\ search.result.value # <<>>
                      /\ \A k \in 1..Len(search.result.value) :
                           HasPrefix(search.result.value[k], q.value)

\* a search for a prefix of two characters that several directives share
C8_Witness ==
    /\ search.called
    /\ ~search.query.isNull
    /\ Len(search.query.value) = 2
    /\ ~search.result.isNull
    /\ Len(search.result.value) >= 3

\* C9: in non-greedy mode the returned token has no character from the left of
\* a '.' that lies left of the offset: the left bound is not left of that '.'.
C9_StopsAtPeriod ==
    (lookup.called /\ ~lookup.greedyParsing /\ ~lookup.token.isNull) =>
      \A p \in 0..(lookup.offset - 1) :
        lookup.source[p + 1] = CharCode.Period => lookup.startPos >= p

\* C10: every statement spans tokens of one logical line only, no line has two
\* statements, and a step adds at most one statement, inside the token index
\* range [tokensPerLineOfs, tokensPerLineOfs + tokensPerLineCount) it closes.
C10_OneStatementPerLine ==
    /\ [](/\ \A k \in 1..Len(Stmts) :
               /\ Stmts[k].tokenCount >= 1
               /\ \E i \in LineStarts :
                    /\ i <= Stmts[k].tokenOffset + 1
                    /\ Stmts[k].tokenOffset + Stmts[k].tokenCount <= LineLast(i)
          /\ \A i \in LineStarts : Cardinality(StatementsOfLine(i)) <= 1)
    /\ [][ /\ Len(ast'.statements) <= Len(ast.statements) + 1
           /\ Len(ast'.statements) = Len(ast.statements) + 1 =>
                LET st == ast'.statements[Len(ast'.statements)]
                IN  /\ tokensPerLineCount > 0
                    /\ tokensPerLineOfs <= st.tokenOffset
                    /\ st.tokenOffset + st.tokenCount
                         <= tokensPerLineOfs + tokensPerLineCount
         ]_vars

\* a finished scan that left two statements, one of them for a line of
\* several tokens
C10_Witness ==
    /\ pc = "done"
    /\ Len(Stmts) >= 2
    /\ \E i \in LineStarts : LineLast(i) > i /\ StatementsOfLine(i) # {}

\* C11: a cursor operation at end-of-input (offset >= length) leaves offset,
\* row and column as they are, and peek() returns 0 there.
C11_EndOfInputNoOps ==
    [][ (pc = "cursor" /\ pc' = "cursor" /\ eof(src, it)) =>
          /\ it' = it
          /\ peeked' # peeked => peeked' = 0
      ]_vars

C13_Terminates ==
    /\ [][ AtDispatch => (it.ofs < it'.ofs /\ it'.ofs <= Len(src)) ]_vars
    /\ (pc = "scan") ~> (pc = "done" /\ eof(src, it))

\* a parse that took several iterations is done
C13_Witness ==
    /\ pc = "done"
    /\ Len(src) >= 4
    /\ Len(Toks) >= 2

\* C14: a token carries the first-on-line flag exactly when it is the first
\* token of the stream or the token before it is a LineBreak or a Comment.
C14_FirstFlag ==
    \A i \in 1..Len(Toks) :
      Toks[i].first <=> (i = 1 \/ IsTerminator(Toks[i - 1]))

\* a finished scan with a flagged Reference and its unflagged Identifier, and
\* with a flagged and an unflagged line-terminating token
C14_Witness ==
    /\ pc = "done"
    /\ \E i \in 1..(Len(Toks) - 1) :
         /\ Toks[i].type = TokenType.Reference /\ Toks[i].first
         /\ Toks[i + 1].type = TokenType.Identifier /\ ~Toks[i + 1].first
    /\ \E i \in 1..Len(Toks) : IsTerminator(Toks[i]) /\ Toks[i].first
    /\ \E i \in 1..Len(Toks) : IsTerminator(Toks[i]) /\ ~Toks[i].first

\* the step ends the run of accumulated tokens at the end of the stream: it
\* appends a LineBreak or Comment token behind it, or it ends the parse
ClosesLine ==
    /\ pc = "scan"
    /\ Len(Toks) > 0
    /\ ~IsTerminator(Toks[Len(Toks)])
    /\ \/ pc' = "done"
       \/ Len(NewTokens) > 0 /\ IsTerminator(NewTokens[1])

\* C15: parse(s) leaves the statements and the definitions that
\* parse(s + "\n") leaves; a step that ends a run of non-terminating tokens
\* hands the classifier that run (offset = index of its first token, count =
\* its length) and, inside the loop, resets the counters, and no other step
\* adds a statement.
C15_FlushAtEnd ==
    /\ [](pc = "done" =>
            LET withBreak == parse(src \o <<CharCode.LineFeed>>)
            IN  /\ ast.statements = withBreak.statements
                /\ ast.definitions = withBreak.definitions)
    /\ [][ /\ ClosesLine =>
                /\ tokensPerLineCount > 0
                /\ tokensPerLineOfs + 1 \in LineStarts
                /\ LineLast(tokensPerLineOfs + 1) = Len(Toks)
                /\ tokensPerLineCount = Len(Toks) - tokensPerLineOfs
                /\ ast'.statements =
                     lexer(ast, src, tokensPerLineOfs, tokensPerLineCount).statements
                /\ pc' = "scan" => tokensPerLineCount' = 0
           /\ ast'.statements # ast.statements => ClosesLine
         ]_vars

\* a finished scan of a source without a line break at its end, whose last
\* line of two tokens gave a statement
C15_Witness ==
    /\ pc = "done"
    /\ tokensPerLineCount >= 2
    /\ ~isLineEnd(src[Len(src)])
    /\ \E k \in 1..Len(Stmts) : Stmts[k].tokenOffset >= tokensPerLineOfs

\* the offset just behind the line terminator that starts at p
TerminatorEnd(p) ==
    IF /\ src[p + 1] = CharCode.CarriageReturn
       /\ p + 1 < Len(src)
       /\ src[p + 2] = CharCode.LineFeed
      THEN p + 2 ELSE p + 1

\* the offset of the first character of the line the offset o lies in
LineStartOffset(o) ==
    LET before == { p \in TerminatorStarts : p < o }
    IN  IF before = {} THEN 0
        ELSE TerminatorEnd(CHOOSE p \in before : \A q \in before : q <= p)

\* C16: the row of every token is the number of line terminators of the source
\* before the start of its span, and its column is the distance of that start
\* from the first character of its line.
C16_RowColumn ==
    \A i \in 1..Len(Toks) :
      LET r == Toks[i].range
      IN  /\ r.row = Cardinality({ p \in TerminatorStarts : p < r.offset })
          /\ r.col = r.offset - LineStartOffset(r.offset)

\* C17: every Comment token starts at a ';', has no CR or LF under its span and
\* ends at the next CR or LF or at the end of the source (where the cursor is
\* left); the token after it, if any, is a LineBreak that starts where the
\* comment ends, and no other token starts under the comment's span.
C17_CommentSpan ==
    \A i \in 1..Len(Toks) :
      Toks[i].type = TokenType.Comment =>
        LET r == Toks[i].range
        IN  /\ r.length >= 1
            /\ src[r.offset + 1] = CharCode.Semicolon
            /\ \A k \in 1..r.length : ~isLineEnd(src[r.offset + k])
            /\ SpanEnd(r) = Len(src) \/ isLineEnd(src[SpanEnd(r) + 1])
            /\ (i = Len(Toks) /\ pc = "scan") => it.ofs = SpanEnd(r)
            /\ i < Len(Toks) =>
                 /\ Toks[i + 1].type = TokenType.LineBreak
                 /\ Toks[i + 1].range.offset = SpanEnd(r)
            /\ \A j \in 1..Len(Toks) :
                 j # i => ~(r.offset <= Toks[j].range.offset
                            /\ Toks[j].range.offset < SpanEnd(r))

\* a comment with a quote, '!' or '+' in it has been scanned, and the line
\* break after it
C17_Witness ==
    \E i \in 1..(Len(Toks) - 1) :
      /\ Toks[i].type = TokenType.Comment
      /\ \E k \in 2..Toks[i].range.length :
           src[Toks[i].range.offset + k] \in
             {CharCode.SingleQuote, CharCode.DoubleQuote, CharCode.Plus, CharCode.Exclamation}
      /\ Toks[i + 1].type = TokenType.LineBreak

IsDefinition(st) == st.type = StatementType.Definition

\* C18: the definitions collection is the subsequence of the statements
\* collection made of the Definition statements, in the same order; no statement
\* is in it twice, and no Comment statement is in it.
C18_DefinitionsView ==
    /\ ast.definitions = SelectSeq(ast.statements, IsDefinition)
    /\ \A k, l \in 1..Len(ast.definitions) :
         ast.definitions[k] = ast.definitions[l] => k = l
    /\ \A k \in 1..Len(ast.definitions) :
         ast.definitions[k].type # StatementType.Comment

\* two lines have been classified as definitions
C18_Witness ==
    /\ Len(ast.definitions) >= 2
    /\ Len(ast.statements) >= 2
    /\ ast.definitions[1].tokenOffset < ast.definitions[2].tokenOffset

\* C19: in non-greedy mode a returned token is a non-empty stretch [a, b) of
\* the line that touches the offset and has only symbol-constituent characters
\* and '.'; with leftOnly it does not reach right of the character at the
\* offset; and the result is null exactly when the trimmed substring between
\* the two bounds is empty.
C19_SymbolSubstring ==
    (lookup.called /\ ~lookup.greedyParsing) =>
      /\ lookup.token.isNull <=>
           trim(substring(lookup.source, lookup.startPos, lookup.endPos)) = <<>>
      /\ ~lookup.token.isNull =>
           LET token == lookup.token.value
           IN  /\ Len(token) >= 1
               /\ \A k \in 1..Len(token) :
                    isSymbolChar(token[k]) \/ token[k] = CharCode.Period
               /\ \E a \in 0..Len(lookup.source) : \E b \in a..Len(lookup.source) :
                    /\ substring(lookup.source, a, b) = token
                    /\ a <= lookup.offset + 1
                    /\ lookup.offset <= b
                    /\ lookup.leftOnly => b <= lookup.offset + 1

\* C20: while parse() runs and after it the cursor offset is within
\* 0..Len(src), and it is Len(src) when the loop has ended; the line start index
\* is -1 exactly when the line count is 0, and otherwise start index plus count
\* is the number of tokens emitted so far.
C20_CursorAndCounters ==
    pc \in {"scan", "done"} =>
      /\ 0 <= it.ofs
      /\ it.ofs <= Len(src)
      /\ pc = "done" => it.ofs = Len(src)
      /\ tokensPerLineOfs = -1 <=> tokensPerLineCount = 0
      /\ tokensPerLineCount > 0 =>
           /\ tokensPerLineOfs >= 0
           /\ tokensPerLineOfs + tokensPerLineCount = Len(Toks)

\* parse() has ended on a source that has a CR LF line break and ends with the closing
\* quote of a string, with the tokens of the last line still counted
C20_Witness ==
    /\ pc = "done"
    /\ it.ofs = Len(src)
    /\ Len(src) >= 4
    /\ src[Len(src)] \in {CharCode.SingleQuote, CharCode.DoubleQuote}
    /\ \E i \in 1..Len(Toks) :
         /\ Toks[i].type = TokenType.LineBreak
         /\ src[Toks[i].range.offset + 1] = CharCode.CarriageReturn
         /\ src[Toks[i].range.offset + 2] = CharCode.LineFeed
    /\ Toks[Len(Toks)].type = TokenType.String
    /\ SpanEnd(Toks[Len(Toks)].range) = Len(src) - 1
    /\ tokensPerLineCount > 0

====
